---- MODULE Spec2Model ----
(***************************************************************************)
(* pyshovels.client.ShovelsAPI: the request executor (_make_request), the  *)
(* pagination engine (_make_paginated_request) and the fan-out loop of the *)
(* public methods (search_contractors and its siblings).                   *)
(*                                                                         *)
(* Python's None is the empty tuple and a present value v is <<v>>, so     *)
(* that None, "" and 0 stay three different values.                        *)
(***************************************************************************)
EXTENDS Integers, Sequences, FiniteSets, TLC

\* ---- bounds of the model ------------------------------------------------
\* fetches of one chain that the server may answer with any response
MaxCalls == 2
\* records the server serves within one chain
MaxItems == 3
\* largest max_iterations a caller passes
MaxCeiling == 3
\* midnights that pass during one batch
MaxTicks == 1
\* GETs one chain of the model issues at most: one more than any ceiling
ICap == MaxCeiling + 1

None == <<>>
Some(v) == <<v>>

\* ---- the remote API: what one HTTP GET can produce ----------------------
ItemLists == {<<>>, <<"x">>, <<"x", "y">>}
NextCursors == {None, Some(""), Some("c1"), Some("c2")}
NextPages == {None, Some(0), Some(2), Some(3)}
Keys == {"items", "next_cursor", "next_page"}

\* decoded JSON objects: a key that is absent has no value
Bodies ==
  { b \in [keys : SUBSET Keys, items : ItemLists,
           next_cursor : NextCursors, next_page : NextPages] :
      /\ ("items" \notin b.keys) => (b.items = <<>>)
      /\ ("next_cursor" \notin b.keys) => (b.next_cursor = None)
      /\ ("next_page" \notin b.keys) => (b.next_page = None)
      /\ ({"next_cursor", "next_page"} \subseteq b.keys) =>
            /\ b.next_cursor \in {None, Some("c1")}
            /\ b.next_page \in {None, Some(2)} }

EmptyBody == [keys |-> {}, items |-> <<>>, next_cursor |-> None, next_page |-> None]

\* session.get raises (connection error, timeout)
TransportError == [raises |-> TRUE, status_code |-> 0, valid_json |-> FALSE, body |-> EmptyBody]
\* the server answers with a non-200 status
HttpError == [raises |-> FALSE, status_code |-> 500, valid_json |-> TRUE, body |-> EmptyBody]
\* status 200 with a body that is not JSON
InvalidJson == [raises |-> FALSE, status_code |-> 200, valid_json |-> FALSE, body |-> EmptyBody]

Page200(b) == [raises |-> FALSE, status_code |-> 200, valid_json |-> TRUE, body |-> b]

Failures == {TransportError, HttpError, InvalidJson}
Responses == Failures \cup {Page200(b) : b \in Bodies}

\* what the server still answers once a chain is MaxCalls fetches long: a
\* failure, a last page, or one more page of an endless cursor or page chain
TailResponses ==
  { TransportError, HttpError, InvalidJson,
    Page200(EmptyBody),
    Page200([keys |-> {"next_cursor"}, items |-> <<>>,
             next_cursor |-> Some("c1"), next_page |-> None]),
    Page200([keys |-> {"next_page"}, items |-> <<>>,
             next_cursor |-> None, next_page |-> Some(2)]) }

IsSuccess(r) == ~r.raises /\ r.status_code = 200 /\ r.valid_json

\* the body of /meta/release
ReleaseBody ==
  [keys |-> {"released_at"}, items |-> <<>>, next_cursor |-> None, next_page |-> None]

\* what the server answers to the single GET of search_location, get_tags
\* and get_data_release_date
SimpleResponses ==
  Failures \cup
  { Page200(EmptyBody),
    Page200(ReleaseBody),
    Page200([keys |-> {"items"}, items |-> <<>>, next_cursor |-> None, next_page |-> None]),
    Page200([keys |-> {"items"}, items |-> <<"x", "y">>, next_cursor |-> None, next_page |-> None]) }

\* ---- _make_request ------------------------------------------------------
\* a slip at lines 134-136: a page without an items key counts as a failure
MakeRequestStrict(r) ==
  IF r.raises
    THEN [exc |-> "ConnectionError", content |-> None, log |-> "none"]
  ELSE IF r.status_code # 200
    THEN [exc |-> "none", content |-> None, log |-> "error"]
  ELSE IF ~r.valid_json
    THEN [exc |-> "JSONDecodeError", content |-> None, log |-> "none"]
  ELSE IF "items" \notin r.body.keys
    THEN [exc |-> "none", content |-> None, log |-> "error"]
  ELSE [exc |-> "none", content |-> Some(r.body), log |-> "debug"]

\* the outcome of one call: the exception it raises ("none" if it returns),
\* the value it returns (None or the dict) and the record it logs
MakeRequest(r) ==
  IF r.raises
    THEN [exc |-> "ConnectionError", content |-> None, log |-> "none"]
  ELSE IF r.status_code # 200
    THEN [exc |-> "none", content |-> None, log |-> "error"]
  ELSE IF ~r.valid_json
    THEN [exc |-> "JSONDecodeError", content |-> None, log |-> "none"]
  ELSE [exc |-> "none", content |-> Some(r.body), log |-> "debug"]

\* ---- _make_paginated_request: pure parts --------------------------------
AssertPage(page) == page = None \/ page[1] >= 1

\* a slip at line 186: the upper end of the range is left out
AssertSizeStrict(size) == size = None \/ (1 <= size[1] /\ size[1] < 100)

AssertSize(size) == size = None \/ (1 <= size[1] /\ size[1] <= 100)

\* Python truthiness of an optional string / an optional integer
TruthyStr(o) == o # None /\ o[1] # ""
TruthyInt(o) == o # None /\ o[1] # 0

\* a params dict: the keys the model follows, None for a key that is absent
NoParams ==
  [cursor |-> None, page |-> None, size |-> None,
   geo_id |-> None, permit_from |-> None, permit_to |-> None,
   property_type |-> None, tag |-> None,
   metric_from |-> None, metric_to |-> None]

\* lines 195-200: the keys cursor, page, size of the working copy
BuildParams(p, cursor, page, size) ==
  [p EXCEPT !.cursor = IF TruthyStr(cursor) THEN cursor ELSE p.cursor,
            !.page   = IF TruthyInt(page) THEN page ELSE p.page,
            !.size   = IF TruthyInt(size) THEN size ELSE p.size]

\* a slip at line 189: the engine works on the caller's dict itself
ParamsAliased(params, _params) == _params

\* line 189 (and 309, 519 in the callers): the work is done on a copy
\* {**params}, so what is written to it (lines 195-200) leaves the dict of
\* the caller as it was
ParamsCopied(params, _params) == params

\* content.get("items", [])
GetItems(c) == IF "items" \in c.keys THEN c.items ELSE <<>>

\* a slip at line 206: the page is put in front of the accumulator
ExtendFront(results, c) == GetItems(c) \o results

\* line 206
Extend(results, c) == results \o GetItems(c)

\* a slip at line 207: the ceiling is compared before the counter is bumped
CeilingOffByOne(i, max_iterations) ==
  max_iterations # None /\ i = max_iterations[1] + 1

\* line 207
CeilingReached(i, max_iterations) ==
  max_iterations # None /\ i = max_iterations[1]

\* a slip at lines 217-218: the final else does not break
ContinuationNoElse(c, cursor, page) ==
  IF "next_cursor" \in c.keys
    THEN IF c.next_cursor = None
           THEN [break |-> TRUE, cursor |-> cursor, page |-> page]
           ELSE [break |-> FALSE, cursor |-> c.next_cursor, page |-> page]
  ELSE IF "next_page" \in c.keys
    THEN IF c.next_page = None
           THEN [break |-> TRUE, cursor |-> cursor, page |-> page]
           ELSE [break |-> FALSE, cursor |-> cursor, page |-> c.next_page]
  ELSE [break |-> FALSE, cursor |-> cursor, page |-> page]

\* a slip at lines 209-216: next_page is looked at before next_cursor
ContinuationPageFirst(c, cursor, page) ==
  IF "next_page" \in c.keys
    THEN IF c.next_page = None
           THEN [break |-> TRUE, cursor |-> cursor, page |-> page]
           ELSE [break |-> FALSE, cursor |-> cursor, page |-> c.next_page]
  ELSE IF "next_cursor" \in c.keys
    THEN IF c.next_cursor = None
           THEN [break |-> TRUE, cursor |-> cursor, page |-> page]
           ELSE [break |-> FALSE, cursor |-> c.next_cursor, page |-> page]
  ELSE [break |-> TRUE, cursor |-> cursor, page |-> page]

\* lines 209-218: break, or the cursor and page of the next iteration
Continuation(c, cursor, page) ==
  IF "next_cursor" \in c.keys
    THEN IF c.next_cursor = None
           THEN [break |-> TRUE, cursor |-> cursor, page |-> page]
           ELSE [break |-> FALSE, cursor |-> c.next_cursor, page |-> page]
  ELSE IF "next_page" \in c.keys
    THEN IF c.next_page = None
           THEN [break |-> TRUE, cursor |-> cursor, page |-> page]
           ELSE [break |-> FALSE, cursor |-> cursor, page |-> c.next_page]
  ELSE [break |-> TRUE, cursor |-> cursor, page |-> page]

\* a slip at line 219: only the exceptions of the HTTP layer are caught
LoopCatchesTransport(exc) == exc \in {"ConnectionError"}

\* line 219: `except Exception` around the body of the loop
LoopCatches(exc) == exc \in {"ConnectionError", "JSONDecodeError"}

\* a slip at lines 219-224: the handler goes on with the next iteration
AfterFailureRetries(o) == IF o.exc # "none" THEN "loop" ELSE "exit"

\* lines 204-205 and 219-224: a failed fetch leaves the loop (break)
AfterFailure(o) == "exit"

\* a slip at line 130: the request is handed to a worker and the loop goes
\* on without waiting for the response
AfterSendNoWait == "loop"

\* line 130: session.get is synchronous, the loop is suspended until the
\* response is there
AfterSend == "sent"

\* ---- the methods that call _make_request once --------------------------
SimpleMethods == {"search_location", "get_tags", "get_data_release_date"}

\* the query parameters of the single GET (lines 258, 817, 832)
SimpleParams(method) ==
  IF method = "get_tags" THEN [NoParams EXCEPT !.size = Some(100)] ELSE NoParams

\* lines 259-262, 817-818, 832-833: what the method does with the outcome o
\* of _make_request: the exception it ends with and the value it returns
SimpleResult(method, o) ==
  IF o.exc # "none"
    THEN [exc |-> o.exc, value |-> <<>>]
  ELSE IF method = "search_location"
    THEN IF o.content = None
           THEN [exc |-> "none", value |-> <<>>]
           ELSE [exc |-> "none", value |-> GetItems(o.content[1])]
  ELSE IF o.content = None
    THEN [exc |-> "TypeError", value |-> <<>>]
  ELSE IF method = "get_tags"
    THEN IF "items" \in o.content[1].keys
           THEN [exc |-> "none", value |-> o.content[1].items]
           ELSE [exc |-> "KeyError", value |-> <<>>]
  ELSE IF "released_at" \in o.content[1].keys
    THEN [exc |-> "none", value |-> <<"released_at">>]
    ELSE [exc |-> "KeyError", value |-> <<>>]

\* ---- search_contractors, search_permits: pure parts --------------------
\* lines 17-23
US_STATES ==
  <<"AL", "AK", "AZ", "AR", "CA", "CO", "CT", "DE", "FL", "GA",
    "HI", "ID", "IL", "IN", "IA", "KS", "KY", "LA", "ME", "MD",
    "MA", "MI", "MN", "MS", "MO", "MT", "NE", "NV", "NH", "NJ",
    "NM", "NY", "NC", "ND", "OH", "OK", "OR", "PA", "RI", "SC",
    "SD", "TN", "TX", "UT", "VT", "VA", "WA", "WV", "WI", "WY">>

\* the argument geo_ids: None, one string, or a list of strings
GeoNone == [type |-> "NoneType", str |-> "", list |-> <<>>]
GeoStr(s) == [type |-> "str", str |-> s, list |-> <<>>]
GeoList(l) == [type |-> "list", str |-> "", list |-> l]

\* iterating a Python string yields its characters
Chars(s) == IF s = "CA" THEN <<"C", "A">> ELSE <<s>>

\* a slip at lines 517-518: a single string is not wrapped in a list
NormalizeIterates(geo_ids) ==
  IF geo_ids.type = "NoneType" THEN US_STATES
  ELSE IF geo_ids.type = "str" THEN Chars(geo_ids.str)
  ELSE geo_ids.list

\* lines 515-518: the identifiers the loop at line 525 goes through
Normalize(geo_ids) ==
  IF geo_ids.type = "NoneType" THEN US_STATES
  ELSE IF geo_ids.type = "str" THEN <<geo_ids.str>>
  ELSE geo_ids.list

\* a date is the number of its day within 2025; strftime("%Y-%m-%d")
DaysIn == <<31, 28, 31, 30, 31, 30, 31, 31, 30, 31, 30, 31>>
Digit == <<"0", "1", "2", "3", "4", "5", "6", "7", "8", "9">>
Pad2(n) == Digit[(n \div 10) + 1] \o Digit[(n % 10) + 1]

RECURSIVE MonthDay(_, _)
MonthDay(m, d) ==
  IF d > DaysIn[m] THEN MonthDay(m + 1, d - DaysIn[m]) ELSE <<m, d>>

Strftime(n) ==
  LET md == MonthDay(1, n) IN "2025-" \o Pad2(md[1]) \o "-" \o Pad2(md[2])

\* the day the batch starts on: 2025-07-31
FirstDay == 212

\* what a second datetime.date.today() returns after a first one returned
\* day: the same day, or the next one when midnight falls between the two
LaterReads(day) ==
  {day} \cup (IF day < FirstDay + MaxTicks THEN {day + 1} ELSE {})

\* {**params} if params else {}
CopyOf(params) == IF params = None THEN NoParams ELSE params[1]

\* a slip at lines 520-521: the dates of the caller are overwritten
WithDefaultsAlways(params, day1, day2) ==
  [CopyOf(params) EXCEPT !.permit_from = Some(Strftime(day1 - 180)),
                         !.permit_to = Some(Strftime(day2))]

\* lines 519-521: the copy of params with the default permit_from and
\* permit_to where the caller gave none (or an empty one); day1 and day2
\* are what the clock returns at line 520 and at line 521
WithDefaults(params, day1, day2) ==
  LET p == CopyOf(params) IN
    [p EXCEPT !.permit_from = IF TruthyStr(p.permit_from) THEN p.permit_from
                              ELSE Some(Strftime(day1 - 180)),
              !.permit_to = IF TruthyStr(p.permit_to) THEN p.permit_to
                            ELSE Some(Strftime(day2))]

\* lines 309-311 of get_location_monthly_metrics (654-656 of
\* get_filtered_metrics_by_contractor_id): the copy of params with the
\* default metric_from and metric_to; day1 and day2 are what the clock
\* returns at line 310 and at line 311
WithMetricDefaults(params, day1, day2) ==
  LET p == CopyOf(params) IN
    [p EXCEPT !.metric_from = IF TruthyStr(p.metric_from) THEN p.metric_from
                              ELSE Some(Strftime(day1 - 180)),
              !.metric_to = IF TruthyStr(p.metric_to) THEN p.metric_to
                            ELSE Some(Strftime(day2))]

\* line 421 of get_location_details
AssertLevel(level) == level # "addresses"

\* a slip at lines 312-313: only property_type is required
RequiredOnlyType(_params) == _params.property_type # None

\* lines 312-313 (373-374, 657-658): "property_type" in _params and "tag" in
\* _params
RequiredPresent(_params) ==
  _params.property_type # None /\ _params.tag # None

\* lines 563-564: a list of contractor ids holds at most 50
AssertIds(contractor_ids) ==
  contractor_ids.type # "list" \/ Len(contractor_ids.list) <= 50

\* line 528: _params["geo_id"] = geo_id (line 430: {"geo_id": geo_id})
SetGeoId(m_params, geo_id) == [m_params EXCEPT !.geo_id = Some(geo_id)]

\* ---- state --------------------------------------------------------------
VARIABLES
  caller,      \* "direct": a method that calls the engine once and lets its
               \* exceptions through (get_permits_by_id); "fanout":
               \* search_contractors or search_permits; or the name of one
               \* of the other public methods
  geo_ids,     \* the argument geo_ids (contractor_ids) of the method
  level,       \* the argument level of the method, "none" if it has none
  params,      \* the argument params of a fan-out method, or None
  today,       \* the day datetime.date.today() returns
  ids,         \* the identifier list of the batch
  m_params,    \* the dict the public method passes to the engine (_params
               \* of search_contractors)
  kw,          \* the keyword arguments page, size, cursor, max_iterations
  k,           \* index in ids of the current chain
  pc,          \* "start", "call", "loop", "sent", "got", "exit", "end"
  phase,       \* the chain: "INIT", "FETCHING", "DONE", "FAILED", "RAISED"
  cursor, page, _params, i, results,   \* locals of _make_paginated_request
  response,    \* the last HTTP response of the chain, or None
  outcome,     \* how the last call of _make_request ended, or None
  request,     \* query parameters of the last GET of the chain, or None
  calls,       \* HTTP GETs issued by the chain
  inflight,    \* HTTP GETs issued and not answered yet
  running,     \* identifiers whose chain has begun and has not ended
  served,      \* items of the 200 pages served to the chain, in order
  cursorChain, \* every response of the chain was a 200 page with a non-null
               \* next_cursor
  agg,         \* results of the fan-out method
  out,         \* per identifier: how its chain ended and what it returned
  propagated   \* exception that reached the caller of the public method

vars == <<caller, geo_ids, level, params, today, ids, m_params, kw, k, pc, phase, cursor, page, _params, i, results,
          response, outcome, request, calls, inflight, running, served,
          cursorChain, agg, out, propagated>>

chainVars == <<cursor, page, _params, i, results, response, outcome, request,
               calls, served, cursorChain>>

\* ---- arguments ----------------------------------------------------------
PageArgs == {None, Some(0), Some(1), Some(2)}
SizeArgs == {None, Some(0), Some(1), Some(100), Some(101)}
CursorArgs == {None, Some("c1")}
CeilingArgs == {None} \cup {Some(n) : n \in 0..MaxCeiling}

\* calls of the engine: every page and size without cursor and ceiling, and
\* every cursor and ceiling with the page and size of the examples
DirectArgs ==
  [page : PageArgs, size : SizeArgs, cursor : {None}, max_iterations : {None}]
  \cup [page : {None, Some(1)}, size : {None, Some(100)},
        cursor : CursorArgs, max_iterations : CeilingArgs]

FanoutArgs ==
  [page : {None, Some(0)}, size : {None}, cursor : {None},
   max_iterations : {Some(1), Some(2)}]

NoArgs == [page |-> None, size |-> None, cursor |-> None, max_iterations |-> None]

PermitArgs == {None, Some(""), Some("2024-01-01")}

\* the params of a fan-out call: no dict, or a dict with or without geo_id,
\* permit_from and permit_to
ParamsArgs ==
  {None} \cup
  {Some([NoParams EXCEPT !.geo_id = g, !.permit_from = f, !.permit_to = t]) :
     g \in {None, Some("ZZ")}, f \in PermitArgs, t \in PermitArgs}

\* calls of a fan-out method: three identifiers with the default params, the
\* default identifiers with arguments the engine rejects, a single string
\* with every params, and two identifiers with a cursor and a size
FanoutCalls ==
  [geo_ids : {GeoList(<<"A", "B", "C">>)}, params : {None}, kw : FanoutArgs]
  \cup [geo_ids : {GeoNone},
        params : {None, Some([NoParams EXCEPT !.geo_id = Some("ZZ")])},
        kw : {[NoArgs EXCEPT !.page = Some(0)]}]
  \cup [geo_ids : {GeoStr("CA")}, params : ParamsArgs,
        kw : {[NoArgs EXCEPT !.max_iterations = Some(1)]}]
  \cup [geo_ids : {GeoList(<<"A", "B">>)},
        params : {Some([NoParams EXCEPT !.geo_id = Some("ZZ"),
                                        !.permit_from = Some("2024-01-01")])},
        kw : {[page |-> None, size |-> Some(100), cursor |-> Some("c1"),
               max_iterations |-> Some(2)]}]

\* the methods that pass no params to the engine (lines 471, 606, 708)
PlainMethods ==
  {"get_residents", "get_permits_by_contractor_id", "list_contractor_employees"}

\* the methods with the default metric_from and metric_to
MetricMethods ==
  {"get_location_monthly_metrics", "get_filtered_metrics_by_contractor_id"}

\* the methods with a precondition of their own
CheckedMethods ==
  MetricMethods \cup
  {"get_location_current_metrics", "get_location_details",
   "get_contractors_by_id"}

\* the methods that go through the engine, those that loop over
\* identifiers and log what the engine raises, those that read the clock,
\* and those that give each chain the geo_id of its identifier
EngineCallers == {"direct", "fanout"} \cup CheckedMethods \cup PlainMethods
LoopingCallers == EngineCallers \ {"direct", "get_contractors_by_id"}
DatedCallers == {"fanout"} \cup MetricMethods
GeoIdCallers == {"fanout", "get_location_details"}

RequiredArgs == {None, Some(""), Some("residential")}

\* calls of the metrics methods: two identifiers with no params, or with a
\* dict with or without property_type, tag and metric_from, and three
\* identifiers with property_type and tag
MetricsCalls ==
  [geo_ids : {GeoList(<<"A", "B">>)},
   params : {None} \cup
            {Some([NoParams EXCEPT !.property_type = t, !.tag = g,
                                   !.metric_from = f]) :
               t \in RequiredArgs, g \in RequiredArgs,
               f \in {None, Some("2024-01-01")}},
   kw : {[NoArgs EXCEPT !.max_iterations = Some(1)]}]
  \cup [geo_ids : {GeoList(<<"A", "B", "C">>)},
        params : {Some([NoParams EXCEPT !.property_type = Some("residential"),
                                        !.tag = Some("residential")])},
        kw : {[NoArgs EXCEPT !.max_iterations = Some(1)]}]

\* calls of get_contractors_by_id: one string, 50 ids, 51 ids
ByIdCalls ==
  [geo_ids : {GeoStr("CA"), GeoList(US_STATES),
              GeoList(US_STATES \o <<"DC">>)},
   params : {None},
   kw : {[NoArgs EXCEPT !.max_iterations = Some(1)],
         [NoArgs EXCEPT !.page = Some(0)]}]

\* calls of get_location_details and of the methods without params: one
\* string or three identifiers
PlainCalls ==
  [geo_ids : {GeoStr("CA"), GeoList(<<"A", "B", "C">>)},
   params : {None},
   kw : {[NoArgs EXCEPT !.max_iterations = Some(1)],
         [NoArgs EXCEPT !.page = Some(0)]}]

Levels ==
  IF caller = "get_location_details" THEN {"cities", "addresses"}
  ELSE IF caller \in MetricMethods \cup {"get_location_current_metrics"}
    THEN {"cities"}
  ELSE {"none"}

Init ==
  /\ caller \in EngineCallers \cup SimpleMethods
  /\ level \in Levels
  /\ IF caller \in EngineCallers \ {"direct"}
       THEN /\ \E c \in (IF caller = "fanout" THEN FanoutCalls
                         ELSE IF caller = "get_contractors_by_id" THEN ByIdCalls
                         ELSE IF caller \in PlainMethods \cup {"get_location_details"}
                           THEN PlainCalls
                         ELSE MetricsCalls) :
                 geo_ids = c.geo_ids /\ params = c.params /\ kw = c.kw
            /\ ids = <<>>
            /\ pc = "start"
       ELSE /\ geo_ids = GeoList(<<"A">>)
            /\ params = None
            /\ kw \in IF caller = "direct" THEN DirectArgs ELSE {NoArgs}
            /\ ids = <<"A">>
            /\ pc = "call"
  /\ today = FirstDay
  /\ m_params = NoParams
  /\ k = 1
  /\ phase = "INIT"
  /\ cursor = None /\ page = None /\ _params = NoParams
  /\ i = 0 /\ results = <<>>
  /\ response = None /\ outcome = None /\ request = None
  /\ calls = 0 /\ served = <<>> /\ cursorChain = TRUE
  /\ inflight = 0 /\ running = {}
  /\ agg = <<>> /\ out = <<>>
  /\ propagated = "none"

\* ---- the caller of the engine -------------------------------------------
\* a slip at lines 530-534: the handler leaves the loop instead of continuing
RaisedAborts(err) ==
  /\ out' = Append(out, [id |-> ids[k], status |-> err, items |-> <<>>,
                        params |-> m_params])
  /\ agg' = agg
  /\ running' = running \ {ids[k]}
  /\ propagated' = IF caller \in LoopingCallers THEN propagated ELSE err
  /\ k' = k
  /\ pc' = "end"
  /\ m_params' = m_params

\* the engine raised err: a fan-out method logs it and goes on with the next
\* identifier (lines 530-534), any other caller lets it through
Raised(err) ==
  /\ out' = Append(out, [id |-> ids[k], status |-> err, items |-> <<>>,
                        params |-> m_params])
  /\ agg' = agg
  /\ running' = running \ {ids[k]}
  /\ IF caller \in LoopingCallers
       THEN /\ propagated' = propagated
            /\ k' = IF k < Len(ids) THEN k + 1 ELSE k
            /\ pc' = IF k < Len(ids) THEN "call" ELSE "end"
            /\ m_params' = IF caller \in GeoIdCallers /\ k < Len(ids)
                             THEN SetGeoId(m_params, ids[k + 1])
                             ELSE m_params
       ELSE /\ propagated' = err
            /\ k' = k
            /\ pc' = "end"
            /\ m_params' = m_params

\* a slip at line 529: the chain's list is put in front of the aggregate
ReturnedPrepends(res) ==
  /\ out' = Append(out, [id |-> ids[k], status |-> "returned", items |-> res,
                        params |-> m_params])
  /\ agg' = res \o agg
  /\ running' = running \ {ids[k]}
  /\ propagated' = propagated
  /\ k' = IF k < Len(ids) THEN k + 1 ELSE k
  /\ pc' = IF k < Len(ids) THEN "call" ELSE "end"
  /\ m_params' = IF caller \in GeoIdCallers /\ k < Len(ids)
                   THEN SetGeoId(m_params, ids[k + 1]) ELSE m_params

\* the engine returned res: results.extend(...) and the next identifier
Returned(res) ==
  /\ out' = Append(out, [id |-> ids[k], status |-> "returned", items |-> res,
                        params |-> m_params])
  /\ agg' = agg \o res
  /\ running' = running \ {ids[k]}
  /\ propagated' = propagated
  /\ k' = IF k < Len(ids) THEN k + 1 ELSE k
  /\ pc' = IF k < Len(ids) THEN "call" ELSE "end"
  /\ m_params' = IF caller \in GeoIdCallers /\ k < Len(ids)
                   THEN SetGeoId(m_params, ids[k + 1]) ELSE m_params

\* lines 514-524 of search_contractors (752-762 of search_permits): the
\* identifiers, the dict passed to every chain, and the empty aggregate;
\* day2 is what the clock returns at line 521
Start(day2) ==
  /\ pc = "start"
  /\ caller = "fanout"
  /\ day2 \in LaterReads(today)
  /\ today' = day2
  /\ ids' = Normalize(geo_ids)
  /\ m_params' = IF Len(ids') = 0
                   THEN WithDefaults(params, today, day2)
                   ELSE SetGeoId(WithDefaults(params, today, day2), ids'[1])
  /\ agg' = <<>>
  /\ k' = 1
  /\ params' = ParamsCopied(params, Some(m_params'))
  /\ pc' = IF Len(ids') = 0 THEN "end" ELSE "call"
  /\ UNCHANGED <<caller, geo_ids, level, kw, phase, out, propagated>>
  /\ UNCHANGED chainVars
  /\ UNCHANGED <<inflight, running>>

\* lines 306-313 of get_location_monthly_metrics (652-659 of
\* get_filtered_metrics_by_contractor_id); day2 is what the clock returns at
\* line 311
StartMetrics(day2) ==
  /\ pc = "start"
  /\ caller \in MetricMethods
  /\ day2 \in LaterReads(today)
  /\ today' = day2
  /\ ids' = IF geo_ids.type = "str" THEN <<geo_ids.str>> ELSE geo_ids.list
  /\ m_params' = WithMetricDefaults(params, today, day2)
  /\ agg' = <<>>
  /\ k' = 1
  /\ IF RequiredPresent(m_params')
       THEN /\ pc' = IF Len(ids') = 0 THEN "end" ELSE "call"
            /\ propagated' = propagated
       ELSE /\ pc' = "end"
            /\ propagated' = "AssertionError"
  /\ params' = ParamsCopied(params, Some(m_params'))
  /\ UNCHANGED <<caller, geo_ids, level, kw, phase, out>>
  /\ UNCHANGED chainVars
  /\ UNCHANGED <<inflight, running>>

\* lines 370-374 of get_location_current_metrics: the copy of params, with
\* no default dates
StartCurrentMetrics ==
  /\ pc = "start"
  /\ caller = "get_location_current_metrics"
  /\ ids' = IF geo_ids.type = "str" THEN <<geo_ids.str>> ELSE geo_ids.list
  /\ m_params' = CopyOf(params)
  /\ agg' = <<>>
  /\ k' = 1
  /\ IF RequiredPresent(m_params')
       THEN /\ pc' = IF Len(ids') = 0 THEN "end" ELSE "call"
            /\ propagated' = propagated
       ELSE /\ pc' = "end"
            /\ propagated' = "AssertionError"
  /\ params' = ParamsCopied(params, Some(m_params'))
  /\ UNCHANGED <<caller, geo_ids, level, today, kw, phase, out>>
  /\ UNCHANGED chainVars
  /\ UNCHANGED <<inflight, running>>

\* lines 421-430 of get_location_details: the level, the identifiers, and
\* the dict {"geo_id": geo_id} of the first chain
StartDetails ==
  /\ pc = "start"
  /\ caller = "get_location_details"
  /\ IF AssertLevel(level)
       THEN /\ ids' = IF geo_ids.type = "str" THEN <<geo_ids.str>>
                      ELSE geo_ids.list
            /\ m_params' = IF Len(ids') = 0 THEN NoParams
                           ELSE SetGeoId(NoParams, ids'[1])
            /\ agg' = <<>>
            /\ pc' = IF Len(ids') = 0 THEN "end" ELSE "call"
            /\ propagated' = propagated
       ELSE /\ pc' = "end"
            /\ propagated' = "AssertionError"
            /\ UNCHANGED <<ids, m_params, agg>>
  /\ k' = 1
  /\ UNCHANGED <<caller, geo_ids, level, params, today, kw, phase, out>>
  /\ UNCHANGED chainVars
  /\ UNCHANGED <<inflight, running>>

\* lines 460-466 of get_residents (596-601 of get_permits_by_contractor_id,
\* 699-704 of list_contractor_employees): the identifiers and the empty
\* aggregate; the engine is given no params
StartPlain ==
  /\ pc = "start"
  /\ caller \in PlainMethods
  /\ ids' = IF geo_ids.type = "str" THEN <<geo_ids.str>> ELSE geo_ids.list
  /\ m_params' = NoParams
  /\ agg' = <<>>
  /\ k' = 1
  /\ pc' = IF Len(ids') = 0 THEN "end" ELSE "call"
  /\ UNCHANGED <<caller, geo_ids, level, params, today, kw, phase, out,
                 propagated>>
  /\ UNCHANGED chainVars
  /\ UNCHANGED <<inflight, running>>

\* lines 562-565 of get_contractors_by_id: the limit on a list, then one call
\* of the engine for all the ids
StartById ==
  /\ pc = "start"
  /\ caller = "get_contractors_by_id"
  /\ ids' = <<caller>>
  /\ m_params' = NoParams
  /\ k' = 1
  /\ IF AssertIds(geo_ids)
       THEN /\ pc' = "call"
            /\ propagated' = propagated
       ELSE /\ pc' = "end"
            /\ propagated' = "AssertionError"
  /\ UNCHANGED <<caller, geo_ids, level, params, today, kw, phase, agg, out>>
  /\ UNCHANGED chainVars
  /\ UNCHANGED <<inflight, running>>

\* midnight passes while the batch is between two chains
Tick ==
  /\ pc = "call"
  /\ caller \in DatedCallers
  /\ today < FirstDay + MaxTicks
  /\ today' = today + 1
  /\ UNCHANGED <<caller, geo_ids, level, params, ids, m_params, kw, k, pc, phase,
                 agg, out, propagated>>
  /\ UNCHANGED chainVars
  /\ UNCHANGED <<inflight, running>>

\* ---- _make_paginated_request --------------------------------------------
\* lines 185-191; fault: the injected logger raises at line 190
Enter(fault) ==
  /\ pc = "call"
  /\ caller \in EngineCallers
  /\ response' = None /\ outcome' = None /\ request' = None
  /\ calls' = 0 /\ served' = <<>>
  /\ cursorChain' = TRUE
  /\ i' = 0 /\ results' = <<>> /\ _params' = m_params
  /\ cursor' = kw.cursor /\ page' = kw.page
  /\ IF ~AssertPage(kw.page) \/ ~AssertSize(kw.size)
       THEN Raised("AssertionError") /\ phase' = "RAISED"
     ELSE IF fault
       THEN Raised("unexpected") /\ phase' = "RAISED"
     ELSE /\ phase' = "FETCHING"
          /\ pc' = "loop"
          /\ running' = running \cup {ids[k]}
          /\ UNCHANGED <<k, agg, out, propagated, m_params>>
  /\ UNCHANGED <<caller, geo_ids, level, params, today, ids, kw, inflight>>

\* lines 194-203 up to the request going out at line 130; the model follows
\* a chain for ICap GETs, the code goes on for as long as the server does
Send ==
  /\ pc = "loop"
  /\ caller \in EngineCallers
  /\ calls < ICap
  /\ i' = i + 1
  /\ _params' = BuildParams(_params, cursor, page, kw.size)
  /\ request' = Some(_params')
  /\ m_params' = ParamsCopied(m_params, _params')
  /\ calls' = calls + 1
  /\ inflight' = inflight + 1
  /\ pc' = AfterSend
  /\ UNCHANGED <<caller, geo_ids, level, params, today, ids, kw, k, phase, cursor,
                 page, results, response, outcome, served, cursorChain,
                 running, agg, out, propagated>>

\* line 130: the HTTP response r arrives and session.get returns
Receive(r) ==
  /\ pc = "sent"
  /\ caller \in EngineCallers
  /\ r \in (IF calls <= MaxCalls THEN Responses ELSE TailResponses)
  /\ Len(served) + Len(GetItems(r.body)) <= MaxItems
  /\ response' = Some(r)
  /\ served' = IF IsSuccess(r) THEN served \o GetItems(r.body) ELSE served
  /\ cursorChain' = (cursorChain /\ IsSuccess(r) /\ r.body.next_cursor # None)
  /\ outcome' = None
  /\ inflight' = inflight - 1
  /\ pc' = "got"
  /\ UNCHANGED <<caller, geo_ids, level, params, today, ids, m_params, kw, k, phase,
                 cursor, page, _params, i, results, request, calls, running,
                 agg, out, propagated>>

\* lines 203-224: _make_request returns or raises and the iteration ends
Process ==
  /\ pc = "got"
  /\ caller \in EngineCallers
  /\ outcome' = Some(MakeRequest(response[1]))
  /\ LET o == MakeRequest(response[1]) IN
       IF o.exc # "none" /\ ~LoopCatches(o.exc)
         THEN /\ Raised(o.exc)
              /\ phase' = "RAISED"
              /\ UNCHANGED <<results, cursor, page>>
       ELSE IF o.exc # "none" \/ o.content = None
         THEN /\ phase' = "FAILED"
              /\ pc' = AfterFailure(o)
              /\ UNCHANGED <<results, cursor, page, k, agg, out, propagated,
                             m_params, running>>
       ELSE LET c == o.content[1]
                n == Continuation(c, cursor, page)
            IN /\ results' = Extend(results, c)
               /\ UNCHANGED <<k, agg, out, propagated, m_params, running>>
               /\ IF CeilingReached(i, kw.max_iterations) \/ n.break
                    THEN /\ phase' = "DONE"
                         /\ pc' = "exit"
                         /\ UNCHANGED <<cursor, page>>
                    ELSE /\ phase' = phase
                         /\ pc' = "loop"
                         /\ cursor' = n.cursor
                         /\ page' = n.page
  /\ UNCHANGED <<caller, geo_ids, level, params, today, ids, kw, _params, i,
                 response, request, calls, inflight, served, cursorChain>>

\* lines 225-229; fault: the injected logger raises at lines 226-228
Exit(fault) ==
  /\ pc = "exit"
  /\ IF fault
       THEN Raised("unexpected")
       ELSE Returned(results)
  /\ phase' = phase
  /\ UNCHANGED <<caller, geo_ids, level, params, today, ids, kw, inflight>>
  /\ UNCHANGED chainVars

\* search_location, get_tags, get_data_release_date (lines 257-259, 817,
\* 832): the GET of the single call of _make_request goes out at line 130
SimpleSend ==
  /\ pc = "call"
  /\ caller \in SimpleMethods
  /\ request' = Some(SimpleParams(caller))
  /\ calls' = calls + 1
  /\ inflight' = inflight + 1
  /\ pc' = AfterSend
  /\ UNCHANGED <<caller, geo_ids, level, params, today, ids, m_params, kw, k, phase,
                 cursor, page, _params, i, results, response, outcome, served,
                 cursorChain, running, agg, out, propagated>>

\* line 130: the HTTP response r to the GET of a single-call method arrives
\* and session.get returns
SimpleReceive(r) ==
  /\ pc = "sent"
  /\ caller \in SimpleMethods
  /\ response' = Some(r)
  /\ inflight' = inflight - 1
  /\ pc' = "got"
  /\ UNCHANGED <<caller, geo_ids, level, params, today, ids, m_params, kw, k, phase,
                 cursor, page, _params, i, results, outcome, request, calls,
                 served, cursorChain, running, agg, out, propagated>>

\* lines 131-136 and 259-262 (817-818, 832-833): _make_request returns or
\* raises, and the method returns or lets the exception through
Simple ==
  /\ pc = "got"
  /\ caller \in SimpleMethods
  /\ LET o == MakeRequest(response[1])
         res == SimpleResult(caller, o)
     IN /\ outcome' = Some(o)
        /\ out' = Append(out, [id |-> caller,
                               status |-> IF res.exc = "none" THEN "returned" ELSE res.exc,
                               items |-> res.value,
                               params |-> SimpleParams(caller)])
        /\ propagated' = res.exc
  /\ pc' = "end"
  /\ UNCHANGED <<caller, geo_ids, level, params, today, ids, m_params, kw, k, phase,
                 cursor, page, _params, i, results, response, request, calls,
                 served, cursorChain, agg, inflight, running>>

Next ==
  \/ SimpleSend
  \/ \E r \in SimpleResponses : SimpleReceive(r)
  \/ Simple
  \/ \E day2 \in LaterReads(today) : Start(day2)
  \/ \E day2 \in LaterReads(today) : StartMetrics(day2)
  \/ StartCurrentMetrics
  \/ StartDetails
  \/ StartPlain
  \/ StartById
  \/ Tick
  \/ \E fault \in BOOLEAN : Enter(fault)
  \/ Send
  \/ \E r \in Responses : Receive(r)
  \/ Process
  \/ \E fault \in BOOLEAN : Exit(fault)

\* Spec states no fairness: a GET that the server never answers (line 130
\* sets no timeout) leaves the call waiting at pc = "sent"
Spec == Init /\ [][Next]_vars

\* ---- properties --------------------------------------------------------
Last(s) == s[Len(s)]

\* a call of the engine has just ended; its locals are still in place
JustEnded == caller \in {"direct", "fanout"} /\ pc \in {"call", "end"} /\ out # <<>>

HasCeiling(n) == kw.max_iterations # None /\ kw.max_iterations[1] = n

\* C1: a chain without max_iterations whose pages are all 200 and that the
\* last page ends returns the items of all its pages, concatenated in
\* arrival order, and its counter i is the number of responses consumed.
C1_Concatenation ==
  (/\ JustEnded
   /\ Last(out).status = "returned"
   /\ phase = "DONE"
   /\ kw.max_iterations = None)
  => (Last(out).items = served /\ i = calls)

C1_Witness ==
  /\ JustEnded
  /\ Last(out).status = "returned"
  /\ phase = "DONE"
  /\ kw.max_iterations = None
  /\ calls = 2
  /\ Last(out).items = <<"x", "x", "y">>

\* C2: when a fetch of a chain fails (non-200, transport error, invalid
\* JSON) the engine returns normally, with exactly the items of the pages
\* served before the failure; no exception reaches the caller.
C2_PartialOnFailure ==
  (/\ JustEnded
   /\ response # None
   /\ ~IsSuccess(Last(response))
   /\ Last(out).status # "unexpected")
  => (/\ Last(out).status = "returned"
      /\ Last(out).items = served
      /\ propagated = "none")

C2_Witness ==
  /\ JustEnded
  /\ calls = 3
  /\ response = Some(TransportError)
  /\ Last(out).status = "returned"
  /\ Last(out).items = <<"x", "x", "y">>

\* C3 as stated: termination is guaranteed for every input and every server
\* because every iteration exhausts the continuation token, hits the ceiling
\* or hits a failure.  Then an iteration after which the chain goes on has
\* brought it nearer to its end: the chain has a ceiling it has not reached
\* yet, or it goes on with another cursor or another page than before.  An
\* iteration that goes on with none of these is one the server can make the
\* chain repeat without end: the loop chooses its next step from the
\* response, cursor and page alone (i is read at line 207 only when
\* max_iterations is set).
C3_AlwaysTerminates ==
  [][(pc = "got" /\ pc' = "loop") =>
       \/ kw.max_iterations # None /\ i < kw.max_iterations[1]
       \/ cursor' # cursor
       \/ page' # page]_vars

\* C3 amended: with a ceiling max_iterations = N >= 1 the counter i is the
\* number of GETs issued, fewer than N GETs are issued whenever the chain is
\* at the head of the loop and never more than N, and once the N-th response
\* has been handled the chain is over; so the chain ends within N GETs,
\* provided each of them is answered.
C3_TerminatesUnderCeiling ==
  \A n \in 1..MaxCeiling :
    (HasCeiling(n) /\ phase # "INIT") =>
      /\ i = calls /\ calls <= n
      /\ pc = "loop" => calls < n
      /\ (calls = n /\ pc \notin {"sent", "got"}) =>
           phase \in {"DONE", "FAILED", "RAISED"}

C3_Witness ==
  /\ phase = "DONE"
  /\ HasCeiling(2)
  /\ calls = 2
  /\ cursorChain

\* C4: with max_iterations = N, whatever integer N is, a chain never issues
\* more than N HTTP GETs.
C4_CeilingBoundsCalls ==
  kw.max_iterations # None => calls <= kw.max_iterations[1]

\* C5: with max_iterations = N >= 1 and a server whose every response is a
\* 200 page with a non-null next_cursor, the engine returns after exactly N
\* GETs, with the items of all N pages.
C5_ExactlyN ==
  \A n \in 1..MaxCeiling :
    (/\ JustEnded
     /\ Last(out).status = "returned"
     /\ HasCeiling(n)
     /\ cursorChain)
    => (calls = n /\ Last(out).items = served)

C5_Witness ==
  /\ JustEnded
  /\ Last(out).status = "returned"
  /\ HasCeiling(2)
  /\ cursorChain
  /\ calls = 2
  /\ Last(out).items = <<"x", "y", "x">>

NeitherKey(r) ==
  IsSuccess(r) /\ r.body.keys \cap {"next_cursor", "next_page"} = {}

\* the chain is over: DONE, and no further GET can be issued
ChainDone == pc \in {"exit", "call", "end"} /\ phase = "DONE"

\* C6: once a 200 page with neither next_cursor nor next_page is handled the
\* chain is DONE and issues no further GET, so a chain whose first page is
\* such a page makes exactly one GET, whatever the arguments.
C6_SinglePage ==
  (/\ caller \in {"direct", "fanout"}
   /\ response # None /\ pc # "got" /\ NeitherKey(Last(response)))
  => ChainDone

C6_Witness ==
  /\ pc = "end"
  /\ caller = "direct"
  /\ calls = 1
  /\ NeitherKey(Last(response))
  /\ kw.page = Some(1) /\ kw.cursor = Some("c1") /\ HasCeiling(3)
  /\ Last(out).status = "returned"
  /\ Last(out).items = <<"x", "y">>

\* next_cursor is present and null or "", or next_cursor is missing and
\* next_page is present and null or 0
EmptyContinuation(b) ==
  \/ "next_cursor" \in b.keys /\ b.next_cursor \in {None, Some("")}
  \/ /\ "next_cursor" \notin b.keys
     /\ "next_page" \in b.keys
     /\ b.next_page \in {None, Some(0)}

\* C7: once a 200 page whose continuation is empty or absent is handled the
\* chain is DONE and issues no further GET.
C7_EmptyContinuationEnds ==
  (/\ caller \in {"direct", "fanout"}
   /\ response # None
   /\ pc # "got"
   /\ IsSuccess(Last(response))
   /\ EmptyContinuation(Last(response).body))
  => ChainDone

\* C8: no GET carries both a cursor and a page query parameter.
C8_NeverCursorAndPage ==
  request # None =>
    ~(Last(request).cursor # None /\ Last(request).page # None)

InvalidArgs(a) ==
  \/ a.page # None /\ a.page[1] < 1
  \/ a.size # None /\ (a.size[1] < 1 \/ a.size[1] > 100)

\* C9: the engine raises its validation failure exactly when page < 1 or
\* size is outside 1..100, and then no GET has been issued.
C9_Validation ==
  /\ InvalidArgs(kw) =>
       /\ pc \in {"start", "call", "end"}
       /\ calls = 0 /\ request = None
       /\ \A j \in 1..Len(out) : out[j].status = "AssertionError"
       /\ (caller = "direct" /\ pc = "end") => propagated = "AssertionError"
  /\ ~InvalidArgs(kw) =>
       /\ \A j \in 1..Len(out) : out[j].status # "AssertionError"
       /\ propagated = "AssertionError" =>
            (caller \in CheckedMethods /\ out = <<>>)

C9_Witness ==
  /\ pc = "end"
  /\ caller = "direct"
  /\ kw.page = Some(1) /\ kw.size = Some(101)
  /\ Last(out).status = "AssertionError"
  /\ propagated = "AssertionError"
  /\ calls = 0

ItemsOf(j) == IF out[j].status = "returned" THEN out[j].items ELSE <<>>

\* C10: in every method that loops over identifiers, in a batch over
\* [A, B, C] where the chain of B raises, the batch goes on: the result is
\* the items of A followed by the items of C, and no exception reaches the
\* caller.
C10_FanoutIsolation ==
  (/\ caller \in LoopingCallers
   /\ ids = <<"A", "B", "C">>
   /\ pc = "end"
   /\ Len(out) >= 2
   /\ out[2].status # "returned")
  => (/\ Len(out) = 3
      /\ propagated = "none"
      /\ agg = ItemsOf(1) \o ItemsOf(3))

C10_Witness ==
  /\ caller = "fanout"
  /\ pc = "end"
  /\ Len(out) = 3
  /\ out[1].status = "returned" /\ out[1].items = <<"x", "y">>
  /\ out[2].status = "unexpected"
  /\ out[3].status = "returned" /\ out[3].items = <<"x">>
  /\ agg = <<"x", "y", "x">>

EndsWith(s, t) ==
  Len(s) >= Len(t) /\ SubSeq(s, Len(s) - Len(t) + 1, Len(s)) = t

\* C11: in a fan-out batch a chain whose fetch fails (non-200, network
\* error) raises nothing: it returns the items it had accumulated, they are
\* appended to the aggregate, and the batch goes on with the next
\* identifier.
C11_FanoutTransportFailure ==
  (/\ caller \in LoopingCallers
   /\ pc \in {"call", "end"} /\ out # <<>>
   /\ response # None
   /\ ~IsSuccess(Last(response))
   /\ Last(out).status # "unexpected")
  => (/\ propagated = "none"
      /\ Last(out).status = "returned"
      /\ Last(out).items = served
      /\ EndsWith(agg, served)
      /\ IF Len(out) < Len(ids)
           THEN pc = "call" /\ k = Len(out) + 1
           ELSE pc = "end")

C11_Witness ==
  /\ caller = "fanout"
  /\ pc = "call"
  /\ Len(out) = 2
  /\ response = Some(TransportError)
  /\ calls = 2
  /\ out[2].status = "returned" /\ out[2].items = <<"x">>
  /\ agg = <<"x", "y", "x">>

\* C12: a public method called with page < 1 or size outside 1..100 ends
\* with the validation failure reaching its caller, and no GET is issued.
C12_ValidationFailsFast ==
  (pc = "end" /\ InvalidArgs(kw))
  => (propagated = "AssertionError" /\ calls = 0)

\* C13: a public method whose request is answered with a non-200 status
\* returns a result and raises nothing.
C13_Non200NeverRaises ==
  (/\ pc = "end"
   /\ response # None
   /\ Last(response) = HttpError
   /\ Last(out).status # "unexpected")
  => (propagated = "none" /\ Last(out).status = "returned")

\* C14: _make_request issues one GET per call and, on a non-200 status, a
\* transport error or invalid JSON, returns a failure value instead of
\* raising.
C14_ExecutorNeverRaises ==
  /\ (caller \in SimpleMethods /\ pc = "end") => calls = 1
  /\ outcome # None =>
       /\ Last(outcome).exc = "none"
       /\ ~IsSuccess(Last(response)) => Last(outcome).content = None

\* C15: search_location returns an empty list when its request fails
\* (non-200, transport error, invalid JSON) or has no items, and never
\* raises.
C15_SearchLocationEmptyOnError ==
  (/\ caller = "search_location"
   /\ pc = "end"
   /\ ~IsSuccess(Last(response)) \/ GetItems(Last(response).body) = <<>>)
  => (/\ propagated = "none"
      /\ Last(out).status = "returned"
      /\ Last(out).items = <<>>)

\* C16: every call of _make_request has emitted a record when it ends: a
\* debug record on success, an error record on every failure.
C16_ExecutorAlwaysLogs ==
  outcome # None =>
    Last(outcome).log = IF IsSuccess(Last(response)) THEN "debug" ELSE "error"

RECURSIVE Flatten(_, _)
Flatten(o, n) ==
  IF n = 0 THEN <<>> ELSE Flatten(o, n - 1) \o o[n].items

\* C17: the aggregate of a fan-out batch is the concatenation, in
\* identifier order, of what each chain returned (nothing for a chain that
\* raised), with no reordering and no de-duplication.
C17_AggregateIsFlattening ==
  caller \in LoopingCallers => agg = Flatten(out, Len(out))

C17_Witness ==
  /\ caller = "fanout"
  /\ pc = "end"
  /\ Len(out) = 3
  /\ out[1].status = "returned" /\ out[1].items = <<"x", "y", "x">>
  /\ out[2].status = "returned" /\ out[2].items = <<"x">>
  /\ out[3].status = "unexpected" /\ out[3].items = <<>>
  /\ agg = <<"x", "y", "x", "x">>

\* C18: the chains of a fan-out batch share no pagination state: each
\* chain starts with the counter at zero, an empty accumulator and the
\* cursor and page of the caller, and its first request carries the page,
\* size and cursor of the caller, the base params of the batch and its own
\* geo_id, whatever the chains before it fetched.
C18_NoSharedPaginationState ==
  caller \in LoopingCallers =>
    /\ m_params.cursor = None /\ m_params.page = None /\ m_params.size = None
    /\ (pc = "loop" /\ calls = 0) =>
         /\ i = 0 /\ results = <<>>
         /\ cursor = kw.cursor /\ page = kw.page
    /\ (pc \in {"sent", "got"} /\ calls = 1) =>
         /\ i = 1
         /\ request[1].cursor = kw.cursor
         /\ request[1].page = kw.page
         /\ request[1].size = kw.size
         /\ request[1].geo_id = IF caller \in GeoIdCallers THEN Some(ids[k])
                                ELSE m_params.geo_id
         /\ \A key \in {"permit_from", "permit_to", "property_type", "tag",
                         "metric_from", "metric_to"} :
              request[1][key] = m_params[key]

C18_Witness ==
  /\ caller = "fanout"
  /\ k = 2
  /\ pc = "got" /\ calls = 1 /\ i = 1
  /\ out[1].status = "returned" /\ out[1].items = <<"x", "y", "x">>
  /\ request = Some([NoParams EXCEPT !.geo_id = Some("B"),
                                     !.permit_from = Some("2025-02-01"),
                                     !.permit_to = Some("2025-07-31")])

Supplied(f) == params # None /\ params[1][f] \notin {None, Some("")}

\* the two date keys of the method
FromKey == IF caller = "fanout" THEN "permit_from" ELSE "metric_from"
ToKey == IF caller = "fanout" THEN "permit_to" ELSE "metric_to"

\* C19: the from and to dates of a batch are fixed before its first chain:
\* a non-empty value of the caller is passed as it is, a missing one is
\* computed from the clock at the start of the batch (180 days before that
\* day for the from date; that day for the to date, or the next one when
\* midnight falls between the two readings), and every chain and every
\* request of the batch carries the same two values, whatever the clock
\* does while the batch runs.
C19_DatesFixedPerBatch ==
  (caller \in DatedCallers /\ pc # "start") =>
    LET from == m_params[FromKey]
        to == m_params[ToKey]
    IN /\ from = IF Supplied(FromKey) THEN params[1][FromKey]
                 ELSE Some("2025-02-01")
       /\ IF Supplied(ToKey) THEN to = params[1][ToKey]
          ELSE \/ to = Some("2025-07-31")
               \/ to = Some("2025-08-01") /\ today >= FirstDay + 1
       /\ \A j \in 1..Len(out) :
            out[j].params[FromKey] = from /\ out[j].params[ToKey] = to
       /\ pc = "got" => (request[1][FromKey] = from /\ request[1][ToKey] = to)

C19_Witness ==
  /\ caller = "fanout"
  /\ params = None
  /\ today = FirstDay + 1
  /\ k = 3 /\ pc = "got"
  /\ out[1].status = "returned"
  /\ out[1].params.permit_to = Some("2025-07-31")
  /\ request[1].permit_from = Some("2025-02-01")
  /\ request[1].permit_to = Some("2025-07-31")

\* C20: a fan-out method calls the engine once per identifier, in order:
\* the 50 entries of US_STATES when geo_ids is None, the whole string when
\* geo_ids is one string, the list otherwise; the geo_id each chain is given
\* is its identifier, whatever geo_id the params of the caller hold.
C20_OneChainPerIdentifier ==
  (caller = "fanout" /\ pc # "start") =>
    /\ geo_ids.type = "NoneType" => (Len(ids) = 50 /\ ids = US_STATES)
    /\ geo_ids.type = "str" => ids = <<geo_ids.str>>
    /\ geo_ids.type = "list" => ids = geo_ids.list
    /\ Len(out) = IF pc \in {"call", "loop", "sent", "got", "exit"} THEN k - 1
                  ELSE Len(ids)
    /\ \A j \in 1..Len(out) :
         out[j].id = ids[j] /\ out[j].params.geo_id = Some(ids[j])
    /\ pc = "got" => request[1].geo_id = Some(ids[k])

C20_Witness ==
  /\ caller = "fanout"
  /\ geo_ids = GeoNone
  /\ params # None /\ params[1].geo_id = Some("ZZ")
  /\ pc = "end"
  /\ Len(out) = 50
  /\ out[1].id = "AL" /\ out[5].id = "CA" /\ out[50].id = "WY"
  /\ out[5].params.geo_id = Some("CA")

\* the metrics methods need property_type and tag in params,
\* get_contractors_by_id a list of at most 50 ids, get_location_details a
\* level other than addresses
Precondition ==
  IF caller = "get_contractors_by_id"
    THEN ~(geo_ids.type = "list" /\ Len(geo_ids.list) > 50)
  ELSE IF caller = "get_location_details"
    THEN level # "addresses"
  ELSE /\ params # None
       /\ params[1].property_type # None
       /\ params[1].tag # None

\* C21: a method with a precondition of its own (property_type and tag in
\* params; at most 50 contractor ids in a list; a level other than
\* addresses) reports its violation to the caller before any GET and before
\* any call of the engine, and raises no validation failure when the
\* precondition and the engine's hold.
C21_MethodPreconditions ==
  (caller \in CheckedMethods /\ pc # "start") =>
    /\ ~Precondition =>
         /\ pc = "end"
         /\ propagated = "AssertionError"
         /\ calls = 0 /\ request = None /\ out = <<>>
    /\ (Precondition /\ ~InvalidArgs(kw)) =>
         /\ propagated # "AssertionError"
         /\ \A j \in 1..Len(out) : out[j].status # "AssertionError"

C21_Witness ==
  /\ caller = "get_location_monthly_metrics"
  /\ params # None
  /\ params[1].property_type = Some("residential")
  /\ params[1].tag = None
  /\ pc = "end"
  /\ propagated = "AssertionError"
  /\ calls = 0 /\ out = <<>>

\* C22: the calls are made one after the other: at most one GET is in
\* flight, a GET is issued only after the response to the one before it was
\* received and handled, at most one chain is running, and while the chain
\* of an identifier is running every chain before it has ended and none
\* after it has begun.
C22_Sequential ==
  /\ inflight \in {0, 1}
  /\ inflight = 1 <=> pc = "sent"
  /\ pc = "got" => (response # None /\ outcome = None)
  /\ (pc \in {"loop", "sent"} /\ response # None) =>
       /\ outcome = Some(MakeRequest(response[1]))
       /\ results = served
  /\ Cardinality(running) <= 1
  /\ running # {} <=>
       (caller \in EngineCallers /\ pc \in {"loop", "sent", "got", "exit"})
  /\ running # {} => running = {ids[k]}
  /\ (caller \in LoopingCallers
        /\ pc \in {"call", "loop", "sent", "got", "exit"}) =>
       /\ Len(out) = k - 1
       /\ \A j \in 1..Len(out) : out[j].id = ids[j]
  /\ (caller \in GeoIdCallers /\ pc \in {"sent", "got"}) =>
       request[1].geo_id = Some(ids[k])

C22_Witness ==
  /\ caller = "fanout"
  /\ ids = <<"A", "B", "C">>
  /\ k = 2 /\ pc = "sent" /\ calls = 2
  /\ inflight = 1 /\ running = {"B"}
  /\ Len(out) = 1 /\ out[1].items = <<"x">>
  /\ served = <<"x", "y">> /\ results = <<"x", "y">>
  /\ request[1].geo_id = Some("B") /\ request[1].cursor = Some("c1")

\* C23: the GET that follows a 200 page carries the continuation token of
\* that page: cursor = its next_cursor when that is not null, page = its
\* next_page when the page has no next_cursor key and next_page is not null,
\* whatever the value of the token.
C23_TokenCarriedForward ==
  [][(pc = "loop" /\ pc' = "sent" /\ calls >= 1 /\ IsSuccess(response[1])) =>
       LET b == response[1].body IN
         /\ ("next_cursor" \in b.keys /\ b.next_cursor # None) =>
              request'[1].cursor = b.next_cursor
         /\ ("next_cursor" \notin b.keys /\ "next_page" \in b.keys
                /\ b.next_page # None) =>
              request'[1].page = b.next_page]_vars

\* C24: a failed fetch is the last GET of its chain: once a response that
\* is not a valid 200 page has been handled, the chain is FAILED (or has
\* raised) and never comes back to the head of the loop.
C24_NoRetry ==
  (/\ caller \in EngineCallers
   /\ response # None
   /\ ~IsSuccess(response[1])
   /\ pc # "got")
  => (/\ pc \in {"exit", "call", "end"}
      /\ phase \in {"FAILED", "RAISED"}
      /\ pc = "exit" => phase = "FAILED")

C24_Witness ==
  /\ caller = "direct"
  /\ pc = "end"
  /\ response = Some(InvalidJson)
  /\ calls = 2
  /\ phase = "FAILED"
  /\ Last(out).status = "returned" /\ Last(out).items = <<"x", "y">>

\* C25: no step changes the params dict of the caller of a public method,
\* and no step of the engine changes the dict the engine was given.
C25_ParamsImmutable ==
  [][/\ params' = params
     /\ (pc \in {"call", "loop", "sent", "got"}
           /\ pc' \in {"loop", "sent", "got", "exit"}) =>
          m_params' = m_params]_vars

C25_Witness ==
  /\ caller = "fanout"
  /\ pc = "end"
  /\ params = Some([NoParams EXCEPT !.geo_id = Some("ZZ"),
                                    !.permit_from = Some("2024-01-01")])
  /\ Len(out) = 2
  /\ m_params.geo_id = Some("B")
  /\ m_params.permit_to = Some("2025-07-31")
  /\ m_params.cursor = None /\ m_params.size = None
  /\ calls = 2
  /\ _params.cursor = Some("c2") /\ _params.size = Some(100)

BothKeys(r) ==
  IsSuccess(r) /\ {"next_cursor", "next_page"} \subseteq r.body.keys

\* C26: when a 200 page has both a next_cursor and a next_page key, the
\* next_cursor decides alone: null ends the chain whatever next_page is, a
\* non-null one becomes the cursor of the next iteration (unless the ceiling
\* ends the chain), and the page of the chain is left as it was.
C26_CursorDecides ==
  [][(caller \in EngineCallers /\ pc = "got" /\ BothKeys(response[1])) =>
       LET b == response[1].body IN
         /\ page' = page
         /\ b.next_cursor = None => (phase' = "DONE" /\ pc' = "exit")
         /\ b.next_cursor # None =>
              IF kw.max_iterations = Some(i)
                THEN phase' = "DONE" /\ pc' = "exit"
                ELSE /\ phase' = "FETCHING" /\ pc' = "loop"
                     /\ cursor' = b.next_cursor]_vars

C26_Witness ==
  /\ caller = "direct"
  /\ pc = "loop"
  /\ response # None
  /\ BothKeys(response[1])
  /\ response[1].body.next_cursor = Some("c1")
  /\ response[1].body.next_page = Some(2)
  /\ cursor = Some("c1")
  /\ page = kw.page /\ kw.page \in {None, Some(1)}

NoItemsKey(r) == IsSuccess(r) /\ "items" \notin r.body.keys

\* the fields of a page other than items end the chain
EndsChain(b) ==
  IF "next_cursor" \in b.keys THEN b.next_cursor = None
  ELSE IF "next_page" \in b.keys THEN b.next_page = None
  ELSE TRUE

\* C27: a 200 page without an items key is no failure: the accumulator is
\* left as it is, and the chain ends or goes on by the ceiling and by the
\* next_cursor / next_page of the page, as it does for a page whose items
\* list is empty.
C27_MissingItemsIsEmpty ==
  [][(caller \in EngineCallers /\ pc = "got" /\ NoItemsKey(response[1])) =>
       LET b == response[1].body IN
         /\ results' = results
         /\ out' = out
         /\ IF kw.max_iterations = Some(i) \/ EndsChain(b)
              THEN phase' = "DONE" /\ pc' = "exit"
              ELSE /\ phase' = "FETCHING" /\ pc' = "loop"
                   /\ cursor' = IF "next_cursor" \in b.keys
                                  THEN b.next_cursor ELSE cursor
                   /\ page' = IF "next_cursor" \in b.keys
                                THEN page ELSE b.next_page]_vars

C27_Witness ==
  /\ caller = "direct"
  /\ pc = "loop"
  /\ calls = 2
  /\ response # None
  /\ NoItemsKey(response[1])
  /\ response[1].body.next_cursor = Some("c2")
  /\ cursor = Some("c2")
  /\ results = <<"x", "y">>
  /\ phase = "FETCHING"

====
